---- MODULE Spec2Model ----
(***************************************************************************)
(* Model of console.py: the ConsoleWindow conversation state machine, the  *)
(* ChatWorker thread that streams one chat completion, and the queued Qt   *)
(* signals that carry the worker's results back to the GUI thread.         *)
(*                                                                         *)
(* Strings are sequences of one-character strings, so that strip() and     *)
(* string concatenation are computed, not assumed.  The text of the two    *)
(* line edits is an input of the handler that reads it (the user may have  *)
(* retyped it at any time); the texts of the two labels are display only   *)
(* and are left out.                                                       *)
(***************************************************************************)
EXTENDS Naturals, Sequences, FiniteSets

\* ------------------------------------------------------------------ bounds
\* Number of requests (ChatWorker objects) one run may start.
MaxRequests == 2
\* Number of non-empty fragments the provider may deliver in one run, over all
\* streams.
MaxChunks == 2
\* Paragraphs in the output area beyond which the user triggers no handler that
\* adds to it (clear_output and reset_conversation are always available).
MaxOutput == 0

\* ------------------------------------------------------------- input sets
Whitespace == {" ", "\t", "\n"}

\* Texts the user may have typed in input_field when submitting.
InputTexts == {<< >>, <<" ">>, <<" ", "a", " ">>}

\* The placeholder the key field shows once a key is accepted.
Mask == <<"*", "*", "*", "*", "*", "*", "*", "*">>

\* Texts the user may have typed in api_key_field when pressing "Set Key".
KeyTexts == {<< >>, Mask, <<" ", "k">>}

\* chunk.choices[0].delta.content as the provider may send it: missing (None),
\* the empty string, or a fragment of text. The k-th fragment of a stream is
\* "H" for odd k and "i!" for even k.
NoContent == [present |-> FALSE, text |-> << >>]

EmptyContent == [present |-> TRUE, text |-> << >>]

Fragment(k) == IF k % 2 = 1 THEN <<"H">> ELSE <<"i", "!">>

Deltas(k) == {NoContent, EmptyContent, [present |-> TRUE, text |-> Fragment(k)]}

\* str(e) of the exceptions the provider may raise.
ErrorTexts == {<<"rate limited">>}

\* ---------------------------------------------------------------- helpers
Last(s) == s[Len(s)]

Front(s) == SubSeq(s, 1, Len(s) - 1)

\* str.strip(): drop leading, then trailing, whitespace.
RECURSIVE LStrip(_)
LStrip(s) ==
    IF s # << >> /\ Head(s) \in Whitespace THEN LStrip(Tail(s)) ELSE s

RECURSIVE RStrip(_)
RStrip(s) ==
    IF s # << >> /\ Last(s) \in Whitespace THEN RStrip(Front(s)) ELSE s

\* Mutants: the text is taken as typed; only the left end is stripped.
StripNothing(s) == s

StripLeft(s) == LStrip(s)

Strip(s) == RStrip(LStrip(s))

\* Python truthiness of delta.content: neither None nor "".
Truthy(d) == d.present /\ d.text # << >>

\* ------------------------------------------------------------------ turns
\* A turn is the dict {"role", "content"}; req is a history field naming the
\* request (index in workers) whose exchange the turn belongs to, 0 for the
\* system turn.
DefaultInstruction == <<"You are a helpful assistant.">>

SystemTurn == [role |-> "system", content |-> DefaultInstruction, req |-> 0]

UserTurn(text, w) == [role |-> "user", content |-> text, req |-> w]

AssistantTurn(full_response, w) ==
    [role |-> "assistant", content |-> full_response, req |-> w]

InitialMessages == <<SystemTurn>>

\* ---------------------------------------------------------------- clients
\* None, or an OpenAI client holding an API key.
NoClient == [set |-> FALSE, key |-> << >>]

KeyClient(api_key) == [set |-> TRUE, key |-> api_key]

\* OpenAI(): the client takes the key found in OPENAI_API_KEY.
EnvKey == <<"k">>

EnvClient == KeyClient(EnvKey)

\* ------------------------------------------------------------ output area
\* The document is a sequence of paragraphs; a paragraph is a kind and the
\* variable text it carries.
Para(kind, text) == [kind |-> kind, text |-> text]

\* QTextEdit.append: a new paragraph at the end.
OutAppend(doc, kind, text) == Append(doc, Para(kind, text))

\* cursor.movePosition(End); cursor.insertText(chunk): text goes to the end of
\* the last paragraph (an empty document has one empty block).
OutInsertAtEnd(doc, chunk) ==
    IF doc = << >>
    THEN <<Para("blank", chunk)>>
    ELSE [doc EXCEPT ![Len(doc)].text = @ \o chunk]

VARIABLES
    client,            \* self.client
    messages,          \* self.messages, the conversation history
    is_streaming,      \* self.is_streaming
    chat_enabled,      \* enabled state of input_field and submit_button
    output_area,       \* document of the output area
    worker,            \* self.worker: index in workers, 0 for None
    workers,           \* every ChatWorker started so far, in start order
    sigq,              \* signals emitted by workers, queued for the GUI thread
    crashed,           \* the process was aborted by Qt
    last               \* history: the handler that ran last and its input

vars == <<client, messages, is_streaming, chat_enabled, output_area, worker,
          workers, sigq, crashed, last>>

Event(op, text, w) == [op |-> op, text |-> text, w |-> w]

\* ------------------------------------------------------------------- Init
\* ConsoleWindow.__init__, with or without OPENAI_API_KEY in the environment.
InitNoEnvKey ==
    /\ client = NoClient
    /\ chat_enabled = FALSE

InitEnvKey ==
    /\ client = EnvClient
    /\ chat_enabled = TRUE

Init ==
    /\ messages = InitialMessages
    /\ is_streaming = FALSE
    /\ output_area = << >>
    /\ worker = 0
    /\ workers = << >>
    /\ sigq = << >>
    /\ crashed = FALSE
    /\ last = Event("init", << >>, 0)
    /\ (InitNoEnvKey \/ InitEnvKey)

\* The user can trigger an event that adds to the output area: the process is
\* alive (and the run is within the output bound).
UIReady == ~crashed /\ Len(output_area) <= MaxOutput

\* ------------------------------------------------------------ set_api_key
\* Line 138: nothing typed, or the placeholder still in the field.
KeyRejected(api_key) == api_key = << >> \/ api_key = Mask

\* Lines 137-139: early return.
set_api_key_return(typed) ==
    /\ UIReady
    /\ KeyRejected(Strip(typed))
    /\ last' = Event("set_api_key", << >>, 0)
    /\ UNCHANGED <<client, messages, is_streaming, chat_enabled, output_area, worker,
                   workers, sigq, crashed>>

\* Lines 141-150: the probe client.models.list() succeeds.
set_api_key_ok(typed) ==
    /\ UIReady
    /\ ~KeyRejected(Strip(typed))
    /\ client' = KeyClient(Strip(typed))
    /\ chat_enabled' = TRUE
    /\ output_area' = OutAppend(OutAppend(output_area, "key_ok", << >>),
                                "blank", << >>)
    /\ last' = Event("set_api_key", << >>, 0)
    /\ UNCHANGED <<messages, is_streaming, worker,
                   workers, sigq, crashed>>

\* Lines 151-157: the probe raises.
set_api_key_except(typed, e) ==
    /\ UIReady
    /\ ~KeyRejected(Strip(typed))
    /\ output_area' = OutAppend(OutAppend(output_area, "api_error", e),
                                "blank", << >>)
    /\ client' = NoClient
    /\ chat_enabled' = FALSE
    /\ last' = Event("set_api_key", << >>, 0)
    /\ UNCHANGED <<messages, is_streaming, worker,
                   workers, sigq, crashed>>

set_api_key ==
    \E typed \in KeyTexts :
        \/ set_api_key_return(typed)
        \/ set_api_key_ok(typed)
        \/ \E e \in ErrorTexts : set_api_key_except(typed, e)

\* ---------------------------------------------------------- process_input
\* Mutant: the check of self.client is left out.
ClientNeverMissing == FALSE

\* Line 166: if not self.client.
ClientMissing == client = NoClient

\* Line 179: self.messages.append({"role": "user", "content": text}).
AppendUser(msgs, text, w) == Append(msgs, UserTurn(text, w))

\* Mutant: the copy is taken before the user turn is appended.
NewWorkerEarlyCopy(c, msgs, raw) ==
    [client |-> c, messages |-> Front(msgs), input |-> raw, pc |-> "iterate",
     full_response |-> << >>, nfrag |-> 0, emitted |-> << >>,
     delivered |-> << >>]

\* ChatWorker.__init__, start() and the head of run(): the thread has called
\* the provider and holds an empty full_response.
\* input (the text as typed), nfrag (the number of fragments received), emitted
\* (the signals emitted so far) and delivered (those of them the GUI thread has
\* handled) are history fields.
NewWorker(c, msgs, raw) ==
    [client |-> c, messages |-> msgs, input |-> raw, pc |-> "iterate",
     full_response |-> << >>, nfrag |-> 0, emitted |-> << >>,
     delivered |-> << >>]

\* Line 190 drops the last reference to the previous ChatWorker, which destroys
\* the object: safely once its thread has finished, but destroying a QThread
\* that is still running is undefined (Qt aborts the process, unless something
\* keeps the object alive).
PreviousStillRunning == worker # 0 /\ workers[worker].pc = "iterate"

\* What is left of a destroyed ChatWorker: its place in the start order (and
\* the number of fragments it was sent).
Destroyed(n) ==
    [client |-> NoClient, messages |-> << >>, input |-> << >>,
     pc |-> "destroyed", full_response |-> << >>, nfrag |-> n,
     emitted |-> << >>, delivered |-> << >>]

\* Line 190, the previous worker: destroyed if its thread has finished.
DropPrevious(ws, prev) ==
    IF prev # 0 /\ ws[prev].pc = "finished"
    THEN [ws EXCEPT ![prev] = Destroyed(ws[prev].nfrag)]
    ELSE ws

\* Lines 166-168.
process_input_no_client(typed) ==
    /\ UIReady
    /\ chat_enabled
    /\ ClientMissing
    /\ output_area' = OutAppend(output_area, "need_key", << >>)
    /\ last' = Event("process_input", typed, 0)
    /\ UNCHANGED <<client, messages, is_streaming, chat_enabled,
                   worker,
                   workers, sigq, crashed>>

\* Lines 170-172.
process_input_blank(typed) ==
    /\ UIReady
    /\ chat_enabled
    /\ ~ClientMissing
    /\ Strip(typed) = << >>
    /\ last' = Event("process_input", typed, 0)
    /\ UNCHANGED <<client, messages, is_streaming, chat_enabled,
                   output_area,
                   worker, workers, sigq, crashed>>

\* Lines 174-187: what the handler does before it creates the worker.
process_input_prepare(typed) ==
    /\ UIReady
    /\ chat_enabled
    /\ ~ClientMissing
    /\ Strip(typed) # << >>
    /\ Len(workers) < MaxRequests
    /\ output_area' = OutAppend(OutAppend(output_area, "you", Strip(typed)),
                                "assistant", << >>)
    /\ messages' = AppendUser(messages, Strip(typed), Len(workers) + 1)
    /\ chat_enabled' = FALSE
    /\ is_streaming' = TRUE
    /\ last' = Event("process_input", typed, Len(workers) + 1)
    /\ UNCHANGED <<client, sigq>>

\* Lines 174-194: the request is accepted and its worker started.
process_input_start(typed) ==
    /\ process_input_prepare(typed)
    /\ workers' = Append(DropPrevious(workers, worker),
                          NewWorker(client, messages', typed))
    /\ worker' = Len(workers) + 1
    /\ UNCHANGED crashed

\* Lines 174-190, when replacing self.worker destroys a running QThread and Qt
\* aborts the process: the new worker is never started.
process_input_abort(typed) ==
    /\ process_input_prepare(typed)
    /\ PreviousStillRunning
    /\ crashed' = TRUE
    /\ UNCHANGED <<worker, workers>>

process_input ==
    \E typed \in InputTexts :
        \/ process_input_no_client(typed)
        \/ process_input_blank(typed)
        \/ process_input_start(typed)
        \/ process_input_abort(typed)

\* --------------------------------------------------------- ChatWorker.run
\* Signal.emit from the worker thread: the call is queued for the GUI thread.
Signal(w, sig, arg) == [w |-> w, sig |-> sig, arg |-> arg]

\* Mutant: the call goes in front of the calls already queued.
EmitInFront(w, sig, arg) ==
    /\ sigq' = <<Signal(w, sig, arg)>> \o sigq

Emit(w, sig, arg) ==
    /\ sigq' = Append(sigq, Signal(w, sig, arg))

\* Mutant: full_response = content.
AccumulateOverwrite(full_response, content) == content

\* Line 34: full_response += content.
Accumulate(full_response, content) == full_response \o content

\* Fragments the provider has delivered to the first n workers.
RECURSIVE ChunksDelivered(_)
ChunksDelivered(n) ==
    IF n = 0
    THEN 0
    ELSE workers[n].nfrag + ChunksDelivered(n - 1)

\* Lines 31-35: the stream yields one chunk.
run_chunk(w, d) ==
    /\ ~crashed
    /\ workers[w].pc = "iterate"
    /\ IF Truthy(d)
       THEN /\ ChunksDelivered(Len(workers)) < MaxChunks
            /\ workers' =
                [workers EXCEPT
                    ![w].full_response = Accumulate(@, d.text),
                    ![w].nfrag = @ + 1,
                    ![w].emitted = Append(@, Signal(w, "chunk_received", d.text))]
            /\ Emit(w, "chunk_received", d.text)
       ELSE UNCHANGED <<workers, sigq>>
    /\ UNCHANGED <<client, messages, is_streaming, chat_enabled,
                   output_area, worker, crashed, last>>

\* Mutant: the signal is emitted and run() goes on.
ReturnedGoesOn(rec, w, s) == [rec EXCEPT !.emitted = Append(@, s)]

\* run() returns after emitting its last signal. A worker self.worker still
\* refers to stays, finished; one that was replaced while running loses its
\* last reference (the frame of run) and is destroyed.
Returned(rec, w, s) ==
    IF w = worker
    THEN [rec EXCEPT !.pc = "finished", !.emitted = Append(@, s)]
    ELSE Destroyed(rec.nfrag)

\* Line 36: the stream ends.
run_finish(w) ==
    /\ ~crashed
    /\ workers[w].pc = "iterate"
    /\ workers' =
        [workers EXCEPT
            ![w] = Returned(@, w, Signal(w, "stream_finished", @.full_response))]
    /\ Emit(w, "stream_finished", workers[w].full_response)
    /\ UNCHANGED <<client, messages, is_streaming, chat_enabled,
                   output_area, worker, crashed, last>>

\* Lines 37-38: create() or the iteration raises.
run_except(w, e) ==
    /\ ~crashed
    /\ workers[w].pc = "iterate"
    /\ workers' =
        [workers EXCEPT
            ![w] = Returned(@, w, Signal(w, "error_occurred", e))]
    /\ Emit(w, "error_occurred", e)
    /\ UNCHANGED <<client, messages, is_streaming, chat_enabled,
                   output_area, worker, crashed, last>>

\* The end of run() in a worker that was replaced while running, when the
\* destruction of its QThread, still running, makes Qt abort the process.
run_abort(w) ==
    /\ ~crashed
    /\ workers[w].pc = "iterate"
    /\ w # worker
    /\ crashed' = TRUE
    /\ UNCHANGED <<client, messages, is_streaming, chat_enabled,
                   output_area, worker, workers, sigq, last>>

run ==
    \E w \in DOMAIN workers :
        \/ \E d \in Deltas(workers[w].nfrag + 1) : run_chunk(w, d)
        \/ run_finish(w)
        \/ \E e \in ErrorTexts : run_except(w, e)
        \/ run_abort(w)

\* ------------------------------------------------- GUI-thread signal slots
\* The GUI thread takes the oldest queued signal and runs the connected slot.
Deliver(s) ==
    /\ sigq' = Tail(sigq)
    /\ workers' = IF workers[s.w].pc = "destroyed"
                  THEN workers
                  ELSE [workers EXCEPT ![s.w].delivered = Append(@, s)]

\* Lines 196-203.
handle_chunk ==
    /\ ~crashed
    /\ sigq # << >>
    /\ Head(sigq).sig = "chunk_received"
    /\ Deliver(Head(sigq))
    /\ output_area' = OutInsertAtEnd(output_area, Head(sigq).arg)
    /\ last' = Event("handle_chunk", << >>, Head(sigq).w)
    /\ UNCHANGED <<client, messages, is_streaming, chat_enabled,
                   worker,
                   crashed>>

\* Line 211: self.messages.append({"role": "assistant", ...}).
AppendAssistant(msgs, full_response, w) ==
    Append(msgs, AssistantTurn(full_response, w))

\* Lines 205-214.
handle_stream_finished ==
    /\ ~crashed
    /\ sigq # << >>
    /\ Head(sigq).sig = "stream_finished"
    /\ Deliver(Head(sigq))
    /\ is_streaming' = FALSE
    /\ output_area' = OutAppend(output_area, "blank", << >>)
    /\ messages' = AppendAssistant(messages, Head(sigq).arg, Head(sigq).w)
    /\ chat_enabled' = TRUE
    /\ last' = Event("handle_stream_finished", << >>, Head(sigq).w)
    /\ UNCHANGED <<client, worker, crashed>>

\* Mutant: the last turn is popped whatever its role.
PopLast(msgs) == IF msgs # << >> THEN Front(msgs) ELSE msgs

\* Mutant: the failure is recorded as the assistant's answer.
RecordFailure(msgs) ==
    Append(msgs, AssistantTurn(Head(sigq).arg, Head(sigq).w))

\* Lines 222-224: remove the failed user message from history.
PopFailedUser(msgs) ==
    IF msgs # << >> /\ Last(msgs).role = "user" THEN Front(msgs) ELSE msgs

\* Lines 216-227.
handle_error ==
    /\ ~crashed
    /\ sigq # << >>
    /\ Head(sigq).sig = "error_occurred"
    /\ Deliver(Head(sigq))
    /\ is_streaming' = FALSE
    /\ output_area' = OutAppend(OutAppend(output_area, "error", Head(sigq).arg),
                                "blank", << >>)
    /\ messages' = PopFailedUser(messages)
    /\ chat_enabled' = TRUE
    /\ last' = Event("handle_error", << >>, Head(sigq).w)
    /\ UNCHANGED <<client, worker, crashed>>

\* ------------------------------------------------------------ the buttons
\* Mutant: clearing the display also starts the conversation over.
clear_output_and_history ==
    /\ ~crashed
    /\ output_area' = << >>
    /\ messages' = <<SystemTurn>>
    /\ last' = Event("clear_output", << >>, 0)
    /\ UNCHANGED <<client, is_streaming, chat_enabled,
                   worker, workers, sigq, crashed>>

\* Lines 229-231.
clear_output ==
    /\ ~crashed
    /\ output_area' = << >>
    /\ last' = Event("clear_output", << >>, 0)
    /\ UNCHANGED <<client, messages, is_streaming, chat_enabled,
                   worker, workers, sigq, crashed>>

\* Mutant: the system turn is put in front of the turns there are.
ResetKeepsTurns == <<SystemTurn>> \o Tail(messages)

\* Lines 235-237.
ResetMessages == <<SystemTurn>>

\* Lines 233-241.
reset_conversation ==
    /\ ~crashed
    /\ messages' = ResetMessages
    /\ output_area' = OutAppend(OutAppend(<< >>, "reset", << >>), "blank", << >>)
    /\ last' = Event("reset_conversation", << >>, 0)
    /\ UNCHANGED <<client, is_streaming, chat_enabled, worker, workers, sigq,
                   crashed>>

\* ------------------------------------------------------------------- Next
Next ==
    \/ set_api_key
    \/ process_input
    \/ run
    \/ handle_chunk
    \/ handle_stream_finished
    \/ handle_error
    \/ clear_output
    \/ reset_conversation

Spec == Init /\ [][Next]_vars

\* ---------------------------------------------------------------- fairness
\* The provider call of worker w comes to an end: the stream ends or raises.
RunEnds(w) ==
    /\ w \in DOMAIN workers
    /\ (run_finish(w) \/ \E e \in ErrorTexts : run_except(w, e))

\* The event loop of the GUI thread (app.exec()) runs the slot of the oldest
\* queued signal.
EventLoop == handle_chunk \/ handle_stream_finished \/ handle_error

\* Every provider call terminates and the event loop keeps running for as long
\* as the process lives.
FairSpec ==
    /\ Spec
    /\ \A w \in 1..MaxRequests : WF_vars(RunEnds(w))
    /\ WF_vars(EventLoop)

\* ================================================================= claims
Terminal == {"stream_finished", "error_occurred"}

\* Worker w was started and its terminal signal has not been handled yet.
InFlight(w) ==
    \/ workers[w].pc = "iterate"
    \/ \E i \in DOMAIN sigq : sigq[i].w = w /\ sigq[i].sig \in Terminal

\* The workers whose history fields are still there.
Live == {w \in DOMAIN workers : workers[w].pc # "destroyed"}

\* The arguments of the chunk_received signals of a log, in order.
RECURSIVE ChunkText(_)
ChunkText(log) ==
    IF log = << >>
    THEN << >>
    ELSE (IF Head(log).sig = "chunk_received" THEN Head(log).arg ELSE << >>)
         \o ChunkText(Tail(log))

\* text is empty or whitespace only.
IsBlank(text) == \A i \in DOMAIN text : text[i] \in Whitespace

\* c is what is left of raw once the whitespace at both ends is taken off.
IsStrippedFrom(c, raw) ==
    /\ c # << >>
    /\ c[1] \notin Whitespace
    /\ c[Len(c)] \notin Whitespace
    /\ \E i \in 0..Len(raw) :
        /\ i + Len(c) <= Len(raw)
        /\ SubSeq(raw, i + 1, i + Len(c)) = c
        /\ IsBlank(SubSeq(raw, 1, i))
        /\ IsBlank(SubSeq(raw, i + Len(c) + 1, Len(raw)))

\* The turns of role r that belong to request w.
TurnsOf(msgs, r, w) ==
    {i \in DOMAIN msgs : msgs[i].role = r /\ msgs[i].req = w}

\* A step of the GUI thread that runs the slot of the oldest queued signal sig.
SlotStep(sig) ==
    sigq # << >> /\ Head(sigq).sig = sig /\ sigq' = Tail(sigq)

\* A step of process_input on the text typed.
ProcessInputStep(typed) ==
    \/ process_input_no_client(typed)
    \/ process_input_blank(typed)
    \/ process_input_start(typed)
    \/ process_input_abort(typed)

\* C1: at most one request is in flight at any time: never more than one
\* started ChatWorker whose terminal signal is still to be handled, and the
\* input controls stay disabled while one is.
C1_AtMostOneInFlight ==
    /\ Cardinality({w \in DOMAIN workers : InFlight(w)}) <= 1
    /\ (\E w \in DOMAIN workers : InFlight(w)) => ~chat_enabled

\* C2: handling error_occurred with a conversation of length N ending in a
\* user turn leaves the first N-1 turns, and the user turn of the request that
\* failed is no longer in the conversation afterwards.
C2_FailureRollback ==
    [][SlotStep("error_occurred") =>
        /\ (Last(messages).role = "user" => messages' = Front(messages))
        /\ TurnsOf(messages', "user", Head(sigq).w) = {}]_vars

\* Every request started so far has its user turn and its assistant turn in the
\* conversation: each was a successful exchange, and no reset or rollback
\* removed anything of it.
AllExchangesSucceeded ==
    /\ ~crashed
    /\ \A w \in DOMAIN workers :
        /\ TurnsOf(messages, "user", w) # {}
        /\ TurnsOf(messages, "assistant", w) # {}

\* C3: after k successful exchanges and nothing else the conversation is
\* system, user_1, assistant_1, ..., user_k, assistant_k.
C3_ExchangesAlternate ==
    AllExchangesSucceeded =>
        /\ Len(messages) = 1 + 2 * Len(workers)
        /\ messages[1] = SystemTurn
        /\ \A w \in DOMAIN workers :
            /\ messages[2 * w].role = "user"
            /\ messages[2 * w].req = w
            /\ messages[2 * w + 1].role = "assistant"
            /\ messages[2 * w + 1].req = w

\* C4: the text stream_finished carries, and the content of the assistant turn
\* made of it, is the concatenation in emission order of the fragments
\* chunk_received carried in that invocation; no empty fragment is emitted.
C4_StreamingRoundTrip ==
    \A w \in Live :
        LET log == workers[w].emitted IN
        /\ \A i \in DOMAIN log :
            /\ log[i].sig = "stream_finished" =>
                log[i].arg = ChunkText(SubSeq(log, 1, i - 1))
            /\ log[i].sig = "chunk_received" => log[i].arg # << >>
        /\ \A j \in TurnsOf(messages, "assistant", w) :
            messages[j].content = ChunkText(log)

C4_Witness ==
    \E w \in Live :
        /\ Len(workers[w].emitted) = 3
        /\ \E j \in TurnsOf(messages, "assistant", w) :
            messages[j].content = <<"H", "i", "!">>

\* C5: an invocation emits chunk_received signals and then one terminal
\* signal, stream_finished or error_occurred, never both, never two, and
\* nothing after it; it has emitted its terminal signal once run is over.
C5_OneTerminalEvent ==
    \A w \in Live :
        LET log == workers[w].emitted IN
        /\ \A i \in DOMAIN log : log[i].sig \in Terminal => i = Len(log)
        /\ workers[w].pc = "finished" <=>
            (log # << >> /\ Last(log).sig \in Terminal)
        /\ \A i \in DOMAIN log : log[i].w = w

C5_Witness ==
    \E w \in Live :
        /\ Len(workers[w].emitted) = 2
        /\ workers[w].emitted[1].sig = "chunk_received"
        /\ workers[w].emitted[2].sig = "error_occurred"

\* C6: the input controls are enabled only if a client is set.
C6_EnabledOnlyWithClient == chat_enabled => client # NoClient

\* C7: with no client set, process_input changes neither the conversation nor
\* the workers nor the queued signals, whatever the text; set_api_key never
\* changes the conversation.
C7_NoClientNoMutation ==
    [][/\ \A typed \in InputTexts :
            ProcessInputStep(typed) /\ client = NoClient =>
                UNCHANGED <<messages, worker, workers, sigq>>
       /\ set_api_key => UNCHANGED messages]_vars

C7_Witness ==
    /\ last.op = "process_input"
    /\ ~IsBlank(last.text)
    /\ client = NoClient

\* C8: process_input on an empty or whitespace-only text changes neither the
\* conversation nor the workers nor the queued signals nor the enabled state
\* of the input nor is_streaming.
C8_BlankInputRejected ==
    [][\A typed \in InputTexts :
        ProcessInputStep(typed) /\ IsBlank(typed) =>
            UNCHANGED <<messages, worker, workers, sigq, chat_enabled,
                        is_streaming>>]_vars

C8_Witness ==
    /\ last.op = "process_input"
    /\ last.text = <<" ">>
    /\ client # NoClient

\* C9: the conversation is never empty, its first turn is the system turn with
\* the default instruction, and no other turn has the role system.
C9_SystemTurnFirst ==
    /\ messages # << >>
    /\ messages[1] = SystemTurn
    /\ \A i \in DOMAIN messages : i > 1 => messages[i].role # "system"

C9_Witness ==
    /\ last.op = "handle_error"
    /\ output_area # << >>
    /\ output_area[1].kind = "reset"
    /\ messages = <<SystemTurn>>

\* C10: the snapshot a worker holds starts with the system turn and ends with a
\* user turn whose content is the text submitted, stripped and not empty.
C10_SnapshotEndsInUserTurn ==
    \A w \in Live :
        LET snapshot == workers[w].messages IN
        /\ snapshot[1] = SystemTurn
        /\ Last(snapshot).role = "user"
        /\ IsStrippedFrom(Last(snapshot).content, workers[w].input)

C10_Witness ==
    \E w \in Live :
        /\ workers[w].input = <<" ", "a", " ">>
        /\ Last(workers[w].messages).content = <<"a">>

\* C11: reset_conversation, in whatever state, leaves the conversation with
\* exactly one turn, the system turn with the default instruction; applied
\* right after a reset_conversation it changes neither the conversation nor the
\* output area (nor anything else of the window's state).
C11_ResetIdempotent ==
    [][reset_conversation =>
        /\ messages' = <<[role |-> "system",
                          content |-> <<"You are a helpful assistant.">>,
                          req |-> 0]>>
        /\ (last.op = "reset_conversation" =>
                UNCHANGED <<messages, output_area, client, is_streaming,
                            chat_enabled, worker, workers, sigq>>)]_vars

\* A reset while a request is in flight whose snapshot holds more than the
\* system turn.
C11_Witness ==
    /\ last.op = "reset_conversation"
    /\ messages = <<SystemTurn>>
    /\ \E w \in Live : workers[w].pc = "iterate" /\ Len(workers[w].messages) > 1

\* C12: clear_output empties the output area and changes neither the
\* conversation nor the client nor is_streaming nor the worker, the workers and
\* the queued signals (the request in flight) nor the enabled state of the
\* input.
C12_ClearOutputFrame ==
    [][clear_output =>
        /\ output_area' = << >>
        /\ UNCHANGED <<messages, client, is_streaming, chat_enabled, worker,
                       workers, sigq, crashed>>]_vars

\* The display was cleared during a request, with streamed text on it.
C12_Witness ==
    /\ last.op = "clear_output"
    /\ output_area = << >>
    /\ is_streaming
    /\ Len(messages) > 1
    /\ \E w \in Live : workers[w].delivered # << >>

\* No started request is still to be ended by its terminal signal.
NoRequestInFlight ==
    /\ ~crashed
    /\ \A w \in DOMAIN workers : ~InFlight(w)

\* msgs is the system turn followed by pairs of a user turn and the assistant
\* turn of the same request.
CompletedExchanges(msgs) ==
    /\ Len(msgs) % 2 = 1
    /\ msgs[1] = SystemTurn
    /\ \A k \in 1..(Len(msgs) \div 2) :
        /\ msgs[2 * k].role = "user"
        /\ msgs[2 * k + 1].role = "assistant"
        /\ msgs[2 * k + 1].req = msgs[2 * k].req

\* C13: whenever no request is in flight the conversation is the system turn
\* followed by zero or more pairs (user turn, assistant turn answering it), in
\* every interleaving of the handlers with the workers.
C13_HistoryOnlyCompletedExchanges ==
    NoRequestInFlight => CompletedExchanges(messages)

\* log is the first signals of full, in the same order.
IsPrefix(log, full) ==
    /\ Len(log) <= Len(full)
    /\ log = SubSeq(full, 1, Len(log))

\* C14: the signals of one invocation are handled in the order the worker
\* emitted them, none skipped: its fragments in the order the provider produced
\* them, all of them before its terminal signal, and none after it.
C14_FragmentsInOrderBeforeTerminal ==
    \A w \in Live :
        LET emitted == workers[w].emitted
            delivered == workers[w].delivered
        IN  /\ IsPrefix(delivered, emitted)
            /\ \A i \in DOMAIN delivered :
                delivered[i].sig \in Terminal =>
                    /\ i = Len(delivered)
                    /\ ChunkText(delivered) = workers[w].full_response
                    /\ delivered = emitted

\* Two fragments and the end of the stream, all three handled.
C14_Witness ==
    \E w \in Live :
        LET delivered == workers[w].delivered IN
        /\ Len(delivered) = 3
        /\ delivered[1].arg = <<"H">>
        /\ delivered[2].arg = <<"i", "!">>
        /\ delivered[3].sig = "stream_finished"

\* The signals of kind sig in a log.
Count(log, sig) == Cardinality({i \in DOMAIN log : log[i].sig = sig})

\* The assistant turns of a conversation.
AssistantTurns(msgs) == {i \in DOMAIN msgs : msgs[i].role = "assistant"}

\* C15: a worker whose stream failed, after any number of fragments, has
\* emitted error_occurred and no stream_finished; the step that handles the
\* failure adds no turn to the conversation (it keeps it or drops its last
\* turn), so no assistant turn, and none of the failed request is there
\* afterwards; and the paragraphs the output area held stay as they were, the
\* streamed text included.
C15_FailureKeepsOutputNotHistory ==
    [][SlotStep("error_occurred") =>
        LET w == Head(sigq).w IN
        /\ w \in Live =>
            /\ Count(workers[w].emitted, "stream_finished") = 0
            /\ Count(workers[w].emitted, "error_occurred") = 1
        /\ messages' \in {messages, Front(messages)}
        /\ AssistantTurns(messages') = AssistantTurns(messages)
        /\ TurnsOf(messages', "assistant", w) = {}
        /\ IsPrefix(output_area, output_area')]_vars

\* A failure after one fragment was handled: the fragment is still in the
\* output area, followed by the error notice.
C15_Witness ==
    /\ last.op = "handle_error"
    /\ \E w \in Live :
        /\ last.w = w
        /\ Len(workers[w].delivered) = 2
        /\ workers[w].delivered[1].sig = "chunk_received"
        /\ TurnsOf(messages, "assistant", w) = {}
    /\ \E i \in DOMAIN output_area :
        /\ output_area[i].kind = "assistant"
        /\ output_area[i].text = <<"H">>
        /\ i < Len(output_area)
        /\ output_area[i + 1].kind = "error"

\* C16: a step of ChatWorker.run changes nothing of the window's state (it only
\* queues a signal); the conversation changes in process_input,
\* handle_stream_finished, handle_error and reset_conversation only; the
\* snapshot a worker is started with is the conversation as process_input
\* leaves it, and no later step changes it.
C16_WorkerIsolation ==
    [][/\ run => UNCHANGED <<messages, client, is_streaming, chat_enabled,
                             output_area, worker>>
       /\ messages' # messages =>
            \/ process_input
            \/ handle_stream_finished
            \/ handle_error
            \/ reset_conversation
       /\ \A typed \in InputTexts :
            process_input_start(typed) =>
                /\ Len(workers') = Len(workers) + 1
                /\ Last(workers').messages = messages'
                /\ messages' = Append(messages, Last(messages'))
       /\ \A w \in DOMAIN workers :
            workers[w].pc # "destroyed" /\ workers'[w].pc # "destroyed" =>
                workers'[w].messages = workers[w].messages]_vars

\* A worker that received a fragment, and whose snapshot is shorter than the
\* conversation has become since.
C16_Witness ==
    \E w \in Live :
        /\ workers[w].nfrag > 0
        /\ workers[w].pc = "finished"
        /\ Len(messages) > Len(workers[w].messages)
        /\ IsPrefix(workers[w].messages, messages)

\* The terminal signal of request w was the last signal handled, and left the
\* window idle with its input enabled.
EndedAndEnabled(w) ==
    /\ last.op \in {"handle_stream_finished", "handle_error"}
    /\ last.w = w
    /\ ~is_streaming
    /\ chat_enabled

====
